---- MODULE Spec2Model ----
(***************************************************************************)
(* Proficiency scoring and progression engine of trumpet-iq.               *)
(*                                                                         *)
(* TranspositionProficiency keeps one record per (user, instrument, key)   *)
(* in localStorage and updates it with ProficiencyCalculator.              *)
(*                                                                         *)
(* Numbers.  JavaScript numbers are modelled in fixed point: the integer n *)
(* stands for n / SCALE, products and quotients are rounded down, and      *)
(* Math.exp(-r * d) is the d-fold fixed-point product of exp(-r).          *)
(* Time.  The clock counts half days, so that Math.floor of the elapsed    *)
(* days is a real rounding; an ISO timestamp is the clock value it encodes.*)
(* Strings.  A string is the sequence of its characters.                   *)
(***************************************************************************)
EXTENDS Integers, Sequences, FiniteSets, TLC

VARIABLES
    localStorage,          \* storage key -> stored item (absent keys have no item)
    transpositionEnabled,  \* the 'transposition-enabled' setting is 'true'
    now,                   \* the wall clock, in half days
    sessions,              \* storage key -> number of sessions recorded under it
    ret,                   \* the last call: its arguments, the item it found, its
                           \* locals and its outcome; none once the clock or a
                           \* setting has changed
    scorer,                \* the scorer of the game being played, none before one
                           \* is created
    game                   \* the game loop initGame has started, none before it

vars == <<localStorage, transpositionEnabled, now, sessions, ret, scorer, game>>

---------------------------------------------------------------------------
(* Bounds of the model *)

MaxSessions == 2       \* recordSession calls in a behaviour of Spec
MaxTrackSessions == 2  \* recordSession calls in a behaviour of SpecTracks
MaxNow == 2            \* half days the clock runs in Spec
MaxTrackDays == 1      \* days the clock runs in SpecTracks
LongSessions == 32     \* recordSession calls per track in SpecLong
GridSteps == 5         \* steps of the grid of scores in [0,1] in SpecCalc
MaxDecayDays == 3      \* days since practice given to the calculator in SpecCalc
MaxReadDays == 3       \* days the clock runs in SpecDecay
MaxDecaySessions == 2  \* recordSession calls in a behaviour of SpecDecay
MaxLearningAnswers == 21   \* correct answers given to a learning scorer
MaxMarathonAnswers == 45   \* answers given to a marathon scorer
MaxSpeedAnswers == 26      \* answers given to a speed scorer
MaxLearningNotes == 21     \* notes a learning game shows
MaxNotes == 5              \* notes a marathon or speed game shows
MaxPendingRenders == 2     \* scheduled renders a game has pending at once

\* sessionHistory keeps the last 30 sessions
MaxHistory == 30

\* the note vocabulary coverage is measured against
TotalPossibleNotes == 36

---------------------------------------------------------------------------
(* Fixed-point arithmetic *)

SCALE == 100 * 100

Min(a, b) == IF a <= b THEN a ELSE b
Max(a, b) == IF a >= b THEN a ELSE b

\* Math.min(Math.max(x, 0), 1)
Clamp01(x) == Min(Max(x, 0), SCALE)

\* a * b
Mul(a, b) == (a * b) \div SCALE

\* a / b for b # 0
Div(a, b) == (a * SCALE) \div b

RECURSIVE SqrtSearch(_, _, _)
SqrtSearch(n, lo, hi) ==
    IF lo >= hi THEN lo
    ELSE LET mid == (lo + hi + 1) \div 2
         IN  IF mid * mid <= n THEN SqrtSearch(n, mid, hi)
                               ELSE SqrtSearch(n, lo, mid - 1)

\* Math.sqrt(x) for x >= 0: the largest r with r * r <= x * SCALE
Sqrt(x) == SqrtSearch(x * SCALE, 0, 4 * SCALE)

\* Math.round(x) of a fixed-point x >= 0, as a plain integer
Round(x) == (x + SCALE \div 2) \div SCALE

RECURSIVE SeqSum(_)
SeqSum(s) == IF s = <<>> THEN 0 ELSE Head(s) + SeqSum(Tail(s))

Range(s) == {s[i] : i \in 1..Len(s)}

\* s.slice(-n)
LastN(s, n) == IF Len(s) <= n THEN s ELSE SubSeq(s, Len(s) - n + 1, Len(s))

---------------------------------------------------------------------------
(* ProficiencyCalculator *)

\* localStorage.getItem('transposition-enabled') !== 'true'
isBeginnerMode == ~transpositionEnabled

\* the boosts applied with neither Math.min nor the final clamp
calculatePerformanceUnclamped(metrics) ==
    LET baselineSpeed == IF isBeginnerMode THEN 5 * SCALE ELSE 3 * SCALE
        normSpeed == SCALE - Min(Div(metrics.avgSpeed, baselineSpeed), SCALE)
        kids == (7000 * metrics.accuracy + 1000 * normSpeed
                   + 1500 * metrics.coverage + 500 * metrics.consistency) \div SCALE
        adult == (8000 * metrics.accuracy + 2000 * normSpeed) \div SCALE
    IN  IF isBeginnerMode THEN Mul(kids, 13000)
        ELSE IF adult >= 8500 THEN Mul(adult, 11500) ELSE adult

\* metrics is [accuracy, avgSpeed, coverage, consistency]
calculatePerformance(metrics) ==
    LET baselineSpeed == IF isBeginnerMode THEN 5 * SCALE ELSE 3 * SCALE
        normSpeed == SCALE - Min(Div(metrics.avgSpeed, baselineSpeed), SCALE)
        kids == (7000 * metrics.accuracy + 1000 * normSpeed
                   + 1500 * metrics.coverage + 500 * metrics.consistency) \div SCALE
        adult == (8000 * metrics.accuracy + 2000 * normSpeed) \div SCALE
        performance ==
            IF isBeginnerMode
            THEN Min(Mul(kids, 13000), SCALE)
            ELSE IF adult >= 8500 THEN Min(Mul(adult, 11500), SCALE) ELSE adult
    IN  Clamp01(performance)

\* the learning rate of the player tier; the alpha argument is not used
learningRate == IF isBeginnerMode THEN 4000 ELSE 7000

\* the performance added to the score, which is not scaled down
updateProficiencyAdditive(prevScore, performance, alpha) ==
    prevScore + Mul(performance, learningRate)

updateProficiency(prevScore, performance, alpha) ==
    (prevScore * (SCALE - learningRate) + performance * learningRate) \div SCALE

\* Math.exp(-rate * days) for days >= 0, perDay being exp(-rate)
RECURSIVE ExpDecay(_, _)
ExpDecay(perDay, days) ==
    IF days <= 0 THEN SCALE ELSE Mul(ExpDecay(perDay, days - 1), perDay)

\* e^(+rate * days) in place of e^(-rate * days): the score grows by what it
\* should have lost
applyDecayGrowth(score, daysSincePractice) ==
    IF daysSincePractice <= 0 THEN score
    ELSE LET perDay == IF isBeginnerMode THEN 9900 ELSE 9802
         IN  score + (score - Mul(score, ExpDecay(perDay, daysSincePractice)))

applyDecay(score, daysSincePractice) ==
    IF daysSincePractice <= 0 THEN score
    ELSE LET perDay == IF isBeginnerMode THEN 9900 ELSE 9802
         IN  Mul(score, ExpDecay(perDay, daysSincePractice))

\* the ordering of the earlier revision: smooth, then decay
SmoothThenDecay(prevScore, metrics, daysSincePractice, alpha) ==
    LET performance == calculatePerformance(metrics)
        smoothed == updateProficiency(prevScore, performance, alpha)
        decayed == applyDecay(smoothed, daysSincePractice)
    IN  Clamp01(decayed)

\* an additive update that leaves out the (1 - rate) factor and the clamp
AdditiveUnclamped(prevScore, metrics, daysSincePractice, alpha) ==
    applyDecay(prevScore, daysSincePractice)
        + Mul(calculatePerformance(metrics), learningRate)

calculateNewProficiency(prevScore, metrics, daysSincePractice, alpha) ==
    LET performance == calculatePerformance(metrics)
        decayed == applyDecay(prevScore, daysSincePractice)
        smoothed == updateProficiency(decayed, performance, alpha)
    IN  Clamp01(smoothed)

\* the boundaries taken into the lower band: score <= 0.2 and so on
getProficiencyBandInclusive(score) ==
    IF score <= 2000 THEN [level |-> 1, name |-> "Early Learning"]
    ELSE IF score <= 4000 THEN [level |-> 2, name |-> "Developing"]
    ELSE IF score <= 6000 THEN [level |-> 3, name |-> "Functional"]
    ELSE IF score <= 8000 THEN [level |-> 4, name |-> "Independent"]
    ELSE [level |-> 5, name |-> "Mastered"]

getProficiencyBand(score) ==
    IF score < 2000 THEN [level |-> 1, name |-> "Early Learning"]
    ELSE IF score < 4000 THEN [level |-> 2, name |-> "Developing"]
    ELSE IF score < 6000 THEN [level |-> 3, name |-> "Functional"]
    ELSE IF score < 8000 THEN [level |-> 4, name |-> "Independent"]
    ELSE [level |-> 5, name |-> "Mastered"]

calculateConsistency(recentAccuracies) ==
    IF Len(recentAccuracies) < 2 THEN 5000
    ELSE LET n == Len(recentAccuracies)
             mean == SeqSum(recentAccuracies) \div n
             squaredDiffs == [i \in 1..n |->
                 ((recentAccuracies[i] - mean) * (recentAccuracies[i] - mean)) \div SCALE]
             variance == SeqSum(squaredDiffs) \div n
             stdDev == Sqrt(variance)
         IN  Max(0, SCALE - Div(stdDev, 3000))

calculateCoverage(uniqueNotesPracticed, totalPossibleNotes) ==
    IF totalPossibleNotes = 0 THEN 5000
    ELSE Min((uniqueNotesPracticed * SCALE) \div totalPossibleNotes, SCALE)

toDisplayScore(proficiency) == Round(proficiency * 100)

---------------------------------------------------------------------------
(* Strings, tracks and session inputs *)

Bb == <<"B", "b">>
Eb == <<"E", "b">>

\* getAllCombinations: the instruments and keys of the progress page
Instruments == {Bb, <<"C">>, <<"D">>, Eb}
Keys == {<<"A">>, Bb, <<"H">>, <<"C">>, <<"D">>, Eb, <<"E">>, <<"F">>, <<"G">>}

\* user ids are UUIDs: hexadecimal digits and hyphens
User1 == <<"a", "-", "1">>
User2 == <<"b", "-", "2">>
Users == {User1, User2}

AllTracks == Users \X Instruments \X Keys

Note1 == <<"C", "4">>
Note2 == <<"D", "4">>

\* sessionData as the game loop and other callers pass it
SessionInputs ==
    { [score |-> 2, total |-> 2, avgSpeed |-> SCALE, difficulty |-> "advanced",
       mode |-> "learning", hasNotes |-> TRUE, notesPracticed |-> <<Note1, Note2>>],
      [score |-> 2, total |-> 2, avgSpeed |-> SCALE, difficulty |-> "basic",
       mode |-> "learning", hasNotes |-> TRUE, notesPracticed |-> <<Note1>>],
      [score |-> 3, total |-> 2, avgSpeed |-> 0, difficulty |-> "expert",
       mode |-> "speed", hasNotes |-> TRUE, notesPracticed |-> <<Note2, Note2>>],
      [score |-> 0, total |-> 0, avgSpeed |-> 0 - SCALE, difficulty |-> "intermediate",
       mode |-> "marathon", hasNotes |-> FALSE, notesPracticed |-> <<>>],
      [score |-> 1, total |-> 2, avgSpeed |-> 6 * SCALE, difficulty |-> "beginner",
       mode |-> "learning", hasNotes |-> TRUE, notesPracticed |-> <<>>] }

---------------------------------------------------------------------------
(* localStorage and JSON *)

\* localStorage.getItem of a key that has no item
NullItem == [kind |-> "null"]

\* a stored string that JSON.parse rejects
CorruptItem == [kind |-> "text"]

getItem(storage, storageKey) ==
    IF storageKey \in DOMAIN storage THEN storage[storageKey] ELSE NullItem

setItem(storage, storageKey, item) ==
    [k \in DOMAIN storage \cup {storageKey} |->
        IF k = storageKey THEN item ELSE storage[k]]

JSONstringify(value) == [kind |-> "json", value |-> value]

JSONparses(item) == item.kind = "json"

JSONparse(item) == item.value

\* new Set(array): the distinct elements, in order of first occurrence
RECURSIVE NewSet(_)
NewSet(array) ==
    IF array = <<>> THEN <<>>
    ELSE LET front == NewSet(SubSeq(array, 1, Len(array) - 1))
             last == array[Len(array)]
         IN  IF last \in Range(front) THEN front ELSE Append(front, last)

\* set.add(x) for each x of array, in order
RECURSIVE AddAll(_, _)
AddAll(set, array) ==
    IF array = <<>> THEN set
    ELSE AddAll(IF Head(array) \in Range(set) THEN set ELSE Append(set, Head(array)),
                Tail(array))

\* Array.from(set)
ArrayFrom(set) == set

---------------------------------------------------------------------------
(* TranspositionProficiency *)

LevelWeight(difficulty) ==
    CASE difficulty = "basic" -> 10000
      [] difficulty = "beginner" -> 15000
      [] difficulty = "intermediate" -> 25000
      [] difficulty = "advanced" -> 40000
      [] OTHER -> 10000

\* a key that leaves the instrument out
getKeyNoInstrument(userId, instrument, key) ==
    <<"transposition", "_">> \o userId \o <<"_">> \o key

\* `transposition_${userId}_${instrument}_${key}`
getKey(userId, instrument, key) ==
    <<"transposition", "_">> \o userId \o <<"_">> \o instrument \o <<"_">> \o key

\* getData seeding a new track at zero
getDataSeedZero(userId, instrument, key) ==
    LET item == getItem(localStorage, getKey(userId, instrument, key))
    IN  IF item = NullItem
        THEN [threw |-> FALSE,
              data |-> [instrument |-> instrument, key |-> key,
                        proficiencyScore |-> 0, lastPractice |-> now,
                        sessionHistory |-> <<>>, notesCovered |-> <<>>,
                        createdAt |-> now]]
        ELSE IF ~JSONparses(item)
        THEN [threw |-> TRUE]
        ELSE [threw |-> FALSE,
              data |-> [JSONparse(item) EXCEPT
                          !.notesCovered = NewSet(JSONparse(item).notesCovered)]]

\* the result of getData: the record in memory, or the exception of JSON.parse
getData(userId, instrument, key) ==
    LET item == getItem(localStorage, getKey(userId, instrument, key))
    IN  IF item = NullItem
        THEN [threw |-> FALSE,
              data |-> [instrument |-> instrument, key |-> key,
                        proficiencyScore |-> 2000, lastPractice |-> now,
                        sessionHistory |-> <<>>, notesCovered |-> <<>>,
                        createdAt |-> now]]
        ELSE IF ~JSONparses(item)
        THEN [threw |-> TRUE]
        ELSE LET parsed == JSONparse(item)
             IN  [threw |-> FALSE,
                  data |-> [parsed EXCEPT !.notesCovered = NewSet(parsed.notesCovered)]]

\* a saveData that stores the competency rounded to two decimals
saveDataRoundedScore(userId, instrument, key, data) ==
    LET toSave == [data EXCEPT !.notesCovered = ArrayFrom(data.notesCovered),
                               !.proficiencyScore = 100 * Round(100 * @)]
    IN  setItem(localStorage, getKey(userId, instrument, key), JSONstringify(toSave))

\* the storage after saveData
saveData(userId, instrument, key, data) ==
    LET toSave == [data EXCEPT !.notesCovered = ArrayFrom(data.notesCovered)]
    IN  setItem(localStorage, getKey(userId, instrument, key), JSONstringify(toSave))

\* the raw score times the weight, not normalised by the largest weight
calculateWeightedProficiencyUnnormalized(rawScore, difficulty) ==
    Mul(rawScore, LevelWeight(difficulty))

calculateWeightedProficiency(rawScore, difficulty) ==
    LET weight == LevelWeight(difficulty)
        maxWeight == LevelWeight("advanced")
        normalizedWeight == Div(weight, maxWeight)
    IN  Mul(rawScore, normalizedWeight)

\* Math.floor((now - lastPractice) / (1000 * 60 * 60 * 24)), the clock in half days
DaysSince(lastPractice) == (now - lastPractice) \div 2

\* the session's notes replacing the covered ones
ReplaceNotes(notesCovered, sessionData) ==
    IF sessionData.hasNotes THEN NewSet(sessionData.notesPracticed) ELSE notesCovered

\* the notes the record covers once the session's notes are added
CoverNotes(notesCovered, sessionData) ==
    IF sessionData.hasNotes
    THEN AddAll(notesCovered, sessionData.notesPracticed)
    ELSE notesCovered

\* slice(0, 30) in place of slice(-30): the newest record is the one dropped
PushHistoryKeepFirst(sessionHistory, sessionRecord) ==
    LET pushed == Append(sessionHistory, sessionRecord)
    IN  IF Len(pushed) > 30 THEN SubSeq(pushed, 1, 30) ELSE pushed

\* sessionHistory.push(record), then slice(-30) when longer than 30
PushHistory(sessionHistory, sessionRecord) ==
    LET pushed == Append(sessionHistory, sessionRecord)
    IN  IF Len(pushed) > 30 THEN LastN(pushed, 30) ELSE pushed

\* { ...metrics, accuracy: weightedPerformance }
WeightedMetrics(metrics, weightedPerformance) ==
    [metrics EXCEPT !.accuracy = weightedPerformance]

\* score / total with no guard, a session without questions counting as perfect
SessionAccuracyUnguarded(sessionData) ==
    IF sessionData.total = 0 THEN SCALE
    ELSE Div(sessionData.score, sessionData.total)

\* sessionData.total > 0 ? sessionData.score / sessionData.total : 0
SessionAccuracy(sessionData) ==
    IF sessionData.total > 0 THEN Div(sessionData.score, sessionData.total) ELSE 0

\* the accuracies of the whole history, then the session's
RecentAccuraciesUnsliced(sessionHistory, accuracy) ==
    [i \in 1..Len(sessionHistory) |-> sessionHistory[i].accuracy] \o <<accuracy>>

\* sessionHistory.slice(-9).map(s => s.accuracy).concat([accuracy])
RecentAccuracies(sessionHistory, accuracy) ==
    LET recent == LastN(sessionHistory, 9)
    IN  [i \in 1..Len(recent) |-> recent[i].accuracy] \o <<accuracy>>

\* the locals of recordSession once getData has returned data
RecordSessionLocals(data, sessionData) ==
    LET daysSince == DaysSince(data.lastPractice)
        accuracy == SessionAccuracy(sessionData)
        notesCovered == CoverNotes(data.notesCovered, sessionData)
        coverage == calculateCoverage(Len(notesCovered), TotalPossibleNotes)
        recentAccuracies == RecentAccuracies(data.sessionHistory, accuracy)
        consistency == calculateConsistency(recentAccuracies)
        metrics == [accuracy |-> accuracy,
                    avgSpeed |-> IF sessionData.avgSpeed = 0 THEN 2 * SCALE
                                 ELSE sessionData.avgSpeed,
                    coverage |-> coverage,
                    consistency |-> consistency]
        rawPerformance == calculatePerformance(metrics)
        weightedPerformance ==
            calculateWeightedProficiency(rawPerformance, sessionData.difficulty)
        blended == WeightedMetrics(metrics, weightedPerformance)
        newProficiency ==
            calculateNewProficiency(data.proficiencyScore, blended, daysSince, 1500)
        sessionRecord == [timestamp |-> now,
                          accuracy |-> accuracy,
                          rawPerformance |-> rawPerformance,
                          weightedPerformance |-> weightedPerformance,
                          difficulty |-> sessionData.difficulty,
                          proficiency |-> newProficiency,
                          mode |-> sessionData.mode]
    IN  [prior |-> data.proficiencyScore,
         priorHistory |-> data.sessionHistory,
         priorNotes |-> data.notesCovered,
         daysSince |-> daysSince,
         metrics |-> metrics,
         recentAccuracies |-> recentAccuracies,
         rawPerformance |-> rawPerformance,
         weightedPerformance |-> weightedPerformance,
         performance |-> calculatePerformance(blended),
         newProficiency |-> newProficiency,
         sessionRecord |-> sessionRecord,
         data |-> [data EXCEPT
                     !.notesCovered = notesCovered,
                     !.sessionHistory = PushHistory(data.sessionHistory, sessionRecord),
                     !.proficiencyScore = newProficiency,
                     !.lastPractice = now]]

\* what getCurrentProficiency returns, or that it threw
getCurrentProficiency(userId, instrument, key) ==
    LET loaded == getData(userId, instrument, key)
    IN  IF loaded.threw THEN [threw |-> TRUE, error |-> "SyntaxError"]
        ELSE LET data == loaded.data
                 daysSince == DaysSince(data.lastPractice)
                 currentProficiency == applyDecay(data.proficiencyScore, daysSince)
             IN  [threw |-> FALSE,
                  proficiencyScore |-> currentProficiency,
                  proficiencyDisplay |-> toDisplayScore(currentProficiency),
                  band |-> getProficiencyBand(currentProficiency),
                  daysSinceLastPractice |-> daysSince,
                  totalSessions |-> Len(data.sessionHistory),
                  notesCovered |-> Len(data.notesCovered)]

\* the native keys read like every other key
getAllCombinationsNoSkip(userId) ==
    [instrument \in Instruments |->
        [key \in Keys |->
            [isNull |-> FALSE,
             value |-> getCurrentProficiency(userId, instrument, key)]]]

\* results[instrument][key]: null for the native key, else the current proficiency
getAllCombinations(userId) ==
    [instrument \in Instruments |->
        [key \in Keys |->
            IF instrument = key THEN [isNull |-> TRUE]
            ELSE [isNull |-> FALSE,
                  value |-> getCurrentProficiency(userId, instrument, key)]]]

\* the headline read taken from the C trumpet in Bb
getDefaultProficiencyTransposed(userId) == getCurrentProficiency(userId, <<"C">>, Bb)

getDefaultProficiency(userId) == getCurrentProficiency(userId, Bb, Bb)

-------------------------------------------------------------------------------------------------------------------------------------------------
(* State machine *)

NoCall == [op |-> "none"]

\* no scorer has been created
NoScorer == [class |-> "none"]

\* initGame has not been called
NoGame == [mode |-> "none"]

SessionCount(storageKey) ==
    IF storageKey \in DOMAIN sessions THEN sessions[storageKey] ELSE 0

RECURSIVE SumOver(_, _)
SumOver(f, keys) ==
    IF keys = {} THEN 0
    ELSE LET k == CHOOSE x \in keys : TRUE
         IN  f[k] + SumOver(f, keys \ {k})

TotalSessions == SumOver(sessions, DOMAIN sessions)

Init ==
    /\ localStorage = <<>>
    /\ transpositionEnabled \in BOOLEAN
    /\ now = 0
    /\ sessions = <<>>
    /\ ret = NoCall
    /\ scorer = NoScorer
    /\ game = NoGame

\* a recordSession that saves the record field by field, the competency first: a
\* save that fails leaves the new competency with the old history, notes and date
recordSessionFieldByField(userId, instrument, key, sessionData, quotaExceeded) ==
    LET loaded == getData(userId, instrument, key)
        storageKey == getKey(userId, instrument, key)
        call == [op |-> "recordSession", userId |-> userId,
                 instrument |-> instrument, key |-> key]
    IN  IF loaded.threw
        THEN /\ ret' = call @@ [threw |-> TRUE, error |-> "SyntaxError"]
             /\ UNCHANGED <<localStorage, sessions>>
        ELSE LET l == RecordSessionLocals(loaded.data, sessionData)
             IN  IF quotaExceeded
                 THEN /\ ret' = call @@ [threw |-> TRUE, error |-> "QuotaExceededError"]
                      /\ localStorage' =
                            saveData(userId, instrument, key,
                                     [loaded.data EXCEPT
                                        !.proficiencyScore = l.newProficiency])
                      /\ UNCHANGED sessions
                 ELSE /\ localStorage' = saveData(userId, instrument, key, l.data)
                      /\ sessions' = setItem(sessions, storageKey,
                                             SessionCount(storageKey) + 1)
                      /\ ret' = call @@
                           [threw |-> FALSE,
                            before |-> getItem(localStorage, storageKey),
                            sessionData |-> sessionData,
                            locals |-> l,
                            proficiencyScore |-> l.newProficiency,
                            proficiencyDisplay |-> toDisplayScore(l.newProficiency),
                            band |-> getProficiencyBand(l.newProficiency),
                            weightedPerformance |-> l.weightedPerformance]

\* recordSession(userId, instrument, key, sessionData); setItem throws when the
\* quota is exceeded, which is the environment's choice
recordSession(userId, instrument, key, sessionData, quotaExceeded) ==
    LET loaded == getData(userId, instrument, key)
        storageKey == getKey(userId, instrument, key)
        call == [op |-> "recordSession", userId |-> userId,
                 instrument |-> instrument, key |-> key]
    IN  IF loaded.threw
        THEN /\ ret' = call @@ [threw |-> TRUE, error |-> "SyntaxError"]
             /\ UNCHANGED <<localStorage, sessions>>
        ELSE LET l == RecordSessionLocals(loaded.data, sessionData)
             IN  IF quotaExceeded
                 THEN /\ ret' = call @@ [threw |-> TRUE, error |-> "QuotaExceededError"]
                      /\ UNCHANGED <<localStorage, sessions>>
                 ELSE /\ localStorage' = saveData(userId, instrument, key, l.data)
                      /\ sessions' = setItem(sessions, storageKey,
                                             SessionCount(storageKey) + 1)
                      /\ ret' = call @@
                           [threw |-> FALSE,
                            before |-> getItem(localStorage, storageKey),
                            sessionData |-> sessionData,
                            locals |-> l,
                            proficiencyScore |-> l.newProficiency,
                            proficiencyDisplay |-> toDisplayScore(l.newProficiency),
                            band |-> getProficiencyBand(l.newProficiency),
                            weightedPerformance |-> l.weightedPerformance]

RecordSessionOn(tracks, inputs, limit) ==
    \E t \in tracks, sessionData \in inputs, quotaExceeded \in BOOLEAN :
        /\ TotalSessions < limit
        /\ recordSession(t[1], t[2], t[3], sessionData, quotaExceeded)
        /\ UNCHANGED <<transpositionEnabled, now, scorer, game>>

\* a read that persists the record it seeded for a track that had none
GetCurrentProficiencyCreating(tracks) ==
    \E t \in tracks :
        LET loaded == getData(t[1], t[2], t[3])
        IN  /\ ret' = [op |-> "getCurrentProficiency", userId |-> t[1],
                       instrument |-> t[2], key |-> t[3]]
                      @@ getCurrentProficiency(t[1], t[2], t[3])
            /\ localStorage' = IF loaded.threw THEN localStorage
                               ELSE saveData(t[1], t[2], t[3], loaded.data)
            /\ UNCHANGED <<transpositionEnabled, now, sessions, scorer, game>>

\* beginnerMode is the tier the setting gave when the read was made
GetCurrentProficiencyOn(tracks) ==
    \E t \in tracks :
        /\ ret' = [op |-> "getCurrentProficiency", userId |-> t[1],
                   instrument |-> t[2], key |-> t[3],
                   beginnerMode |-> isBeginnerMode]
                  @@ getCurrentProficiency(t[1], t[2], t[3])
        /\ UNCHANGED <<localStorage, transpositionEnabled, now, sessions, scorer, game>>

GetDefaultProficiency ==
    \E userId \in Users :
        /\ ret' = [op |-> "getDefaultProficiency", userId |-> userId,
                   instrument |-> Bb, key |-> Bb]
                  @@ getDefaultProficiency(userId)
        /\ UNCHANGED <<localStorage, transpositionEnabled, now, sessions, scorer, game>>

\* an exception of any getCurrentProficiency leaves getAllCombinations
GetAllCombinations ==
    \E userId \in Users :
        /\ ret' = [op |-> "getAllCombinations", userId |-> userId]
                  @@ (IF \E i \in Instruments, k \in Keys :
                            i # k /\ getData(userId, i, k).threw
                      THEN [threw |-> TRUE, error |-> "SyntaxError"]
                      ELSE [threw |-> FALSE, results |-> getAllCombinations(userId)])
        /\ UNCHANGED <<localStorage, transpositionEnabled, now, sessions, scorer, game>>

\* the clock advances by half a day
Tick ==
    /\ now < MaxNow
    /\ now' = now + 1
    /\ ret' = NoCall
    /\ UNCHANGED <<localStorage, transpositionEnabled, sessions, scorer, game>>

\* the clock advances by a day
TickDay ==
    /\ now + 2 <= 2 * MaxTrackDays
    /\ now' = now + 2
    /\ ret' = NoCall
    /\ UNCHANGED <<localStorage, transpositionEnabled, sessions, scorer, game>>

\* the player switches the 'transposition-enabled' setting
ToggleTransposition ==
    /\ transpositionEnabled' = ~transpositionEnabled
    /\ ret' = NoCall
    /\ UNCHANGED <<localStorage, now, sessions, scorer, game>>

\* something outside the engine leaves an unparsable string under a track's key
CorruptOn(tracks) ==
    \E t \in tracks :
        /\ localStorage' = setItem(localStorage, getKey(t[1], t[2], t[3]), CorruptItem)
        /\ ret' = NoCall
        /\ UNCHANGED <<transpositionEnabled, now, sessions, scorer, game>>

(* One player on one track, with the clock, the setting and a faulty store *)

Track1 == <<User1, Bb, Bb>>
Track2 == <<User1, <<"C">>, Bb>>
Track3 == <<User2, Bb, Bb>>

RecordSession == RecordSessionOn({Track1}, SessionInputs, MaxSessions)
GetCurrentProficiency == GetCurrentProficiencyOn({Track1, Track2})
Corrupt == CorruptOn({Track1})

Next ==
    \/ RecordSession
    \/ GetCurrentProficiency
    \/ Tick
    \/ ToggleTransposition
    \/ Corrupt

Spec == Init /\ [][Next]_vars

(* Several players and tracks *)

PlayedTracks == {Track1, Track2, Track3}

TrackInputs ==
    {d \in SessionInputs : d.difficulty \in {"advanced", "expert"}}

RecordSessionTracks == RecordSessionOn(PlayedTracks, TrackInputs, MaxTrackSessions)
GetCurrentProficiencyTracks ==
    GetCurrentProficiencyOn(PlayedTracks \cup {<<User2, <<"C">>, Eb>>})

NextTracks ==
    \/ RecordSessionTracks
    \/ GetCurrentProficiencyTracks
    \/ GetDefaultProficiency
    \/ GetAllCombinations
    \/ TickDay

SpecTracks == Init /\ [][NextTracks]_vars

(* The same players and tracks, with the headline read and no table of all tracks *)

NextDefault ==
    \/ RecordSessionTracks
    \/ GetCurrentProficiencyTracks
    \/ GetDefaultProficiency
    \/ TickDay

SpecDefault == Init /\ [][NextDefault]_vars

(* Long runs on two tracks: the session a track gets next is fixed by how many
   it has had *)

LongInputs ==
    <<CHOOSE d \in SessionInputs : d.difficulty = "advanced",
      CHOOSE d \in SessionInputs : d.difficulty = "beginner",
      CHOOSE d \in SessionInputs : d.difficulty = "expert">>

RecordSessionLong ==
    \E t \in {Track1, Track2} :
        LET n == SessionCount(getKey(t[1], t[2], t[3]))
        IN  /\ n < LongSessions
            /\ recordSession(t[1], t[2], t[3], LongInputs[(n % 3) + 1], FALSE)
            /\ UNCHANGED <<transpositionEnabled, now, scorer, game>>

GetCurrentProficiencyLong == GetCurrentProficiencyOn({Track1})

NextLong ==
    \/ RecordSessionLong
    \/ GetCurrentProficiencyLong

SpecLong == Init /\ [][NextLong]_vars

(* The calculator called on its own: a call with arguments from a grid, made once
   or again after the setting has been switched *)

\* the scores 0, 1/GridSteps, ..., 1
Grid == {(i * SCALE) \div GridSteps : i \in 0..GridSteps}

\* seconds per note: none, fast, each tier's baseline, and slower than both
Speeds == {0, (3 * SCALE) \div 2, 3 * SCALE, 5 * SCALE, 6 * SCALE}

MetricsGrid ==
    [accuracy : Grid, avgSpeed : Speeds, coverage : Grid, consistency : Grid]

Alphas == {0, 1500, 4000, 7000, SCALE}

Days == (0 - 1)..MaxDecayDays

Difficulties == {"basic", "beginner", "intermediate", "advanced", "expert"}

\* the grid and the scores just below its points
BandScores == Grid \cup {g - 1 : g \in Grid \ {0}}

\* the calls the calculator gets, each with its arguments
CalcCalls ==
    {[op |-> "pending", fn |-> "calculatePerformance", args |-> <<metrics>>] :
        metrics \in MetricsGrid}
    \cup {[op |-> "pending", fn |-> "updateProficiency",
           args |-> <<prevScore, performance, alpha>>] :
        prevScore \in Grid, performance \in Grid, alpha \in Alphas}
    \cup {[op |-> "pending", fn |-> "applyDecay", args |-> <<score, days>>] :
        score \in Grid, days \in Days}
    \cup {[op |-> "pending", fn |-> "calculateNewProficiency",
           args |-> <<prevScore, metrics, days, 1500>>] :
        prevScore \in Grid, days \in Days,
        metrics \in {m \in MetricsGrid : m.coverage = m.consistency}}
    \cup {[op |-> "pending", fn |-> "calculateWeightedProficiency",
           args |-> <<rawScore, difficulty>>] :
        rawScore \in Grid, difficulty \in Difficulties}
    \cup {[op |-> "pending", fn |-> "getProficiencyBand", args |-> <<score>>] :
        score \in BandScores}

InitCalc ==
    /\ localStorage = <<>>
    /\ transpositionEnabled \in BOOLEAN
    /\ now = 0
    /\ sessions = <<>>
    /\ ret \in CalcCalls
    /\ scorer = NoScorer
    /\ game = NoGame

\* the call is made, for the first time or again with the same arguments
Calls(fn) == (ret.op = "pending" /\ ret.fn = fn) \/ ret.op = fn

\* the call returns: its arguments, the tier it found and its result
Returns(fn, result) ==
    /\ ret' = [op |-> fn, args |-> ret.args, beginnerMode |-> isBeginnerMode,
               result |-> result]
    /\ UNCHANGED <<localStorage, transpositionEnabled, now, sessions, scorer, game>>

CalculatePerformance ==
    /\ Calls("calculatePerformance")
    /\ Returns("calculatePerformance", calculatePerformance(ret.args[1]))

UpdateProficiency ==
    /\ Calls("updateProficiency")
    /\ Returns("updateProficiency",
               updateProficiency(ret.args[1], ret.args[2], ret.args[3]))

ApplyDecay ==
    /\ Calls("applyDecay")
    /\ Returns("applyDecay", applyDecay(ret.args[1], ret.args[2]))

CalculateNewProficiency ==
    /\ Calls("calculateNewProficiency")
    /\ Returns("calculateNewProficiency",
               calculateNewProficiency(ret.args[1], ret.args[2], ret.args[3],
                                       ret.args[4]))

CalculateWeightedProficiency ==
    /\ Calls("calculateWeightedProficiency")
    /\ Returns("calculateWeightedProficiency",
               calculateWeightedProficiency(ret.args[1], ret.args[2]))

GetProficiencyBand ==
    /\ Calls("getProficiencyBand")
    /\ Returns("getProficiencyBand", getProficiencyBand(ret.args[1]))

\* the player switches the setting between two calls of the calculator
SwitchTransposition ==
    /\ transpositionEnabled' = ~transpositionEnabled
    /\ UNCHANGED <<localStorage, now, sessions, ret, scorer, game>>

NextCalc ==
    \/ CalculatePerformance
    \/ UpdateProficiency
    \/ ApplyDecay
    \/ CalculateNewProficiency
    \/ CalculateWeightedProficiency
    \/ GetProficiencyBand
    \/ SwitchTransposition

SpecCalc == InitCalc /\ [][NextCalc]_vars


(* One track read again and again while days pass and the setting is switched *)

RecordSessionDecay == RecordSessionOn({Track1}, TrackInputs, MaxDecaySessions)
GetCurrentProficiencyDecay == GetCurrentProficiencyOn({Track1})

\* a day passes
PassDay ==
    /\ now + 2 <= 2 * MaxReadDays
    /\ now' = now + 2
    /\ UNCHANGED <<localStorage, transpositionEnabled, sessions, ret, scorer, game>>

NextDecay ==
    \/ RecordSessionDecay
    \/ GetCurrentProficiencyDecay
    \/ PassDay
    \/ SwitchTransposition

SpecDecay == Init /\ [][NextDecay]_vars

---------------------------------------------------------------------------
(* Session scorers *)

\* this.levelWeights[this.difficulty] || 1.0, in tenths
levelWeights(difficulty) ==
    CASE difficulty = "basic" -> 10
      [] difficulty = "beginner" -> 12
      [] difficulty = "intermediate" -> 15
      [] difficulty = "advanced" -> 20
      [] OTHER -> 10

\* x * levelWeight * this.modeWeight of a fixed-point x, the weights in tenths
Weighted(x, difficulty, modeWeight) ==
    (x * levelWeights(difficulty) * modeWeight) \div 100

(* Learning mode *)

BeginnerLearningModeScoring(difficulty, totalQuestions) ==
    [class |-> "BeginnerLearningModeScoring", totalQuestions |-> totalQuestions,
     correctAnswers |-> 0, difficulty |-> difficulty]

AdvancedLearningModeScoring(difficulty, totalQuestions) ==
    [class |-> "AdvancedLearningModeScoring", totalQuestions |-> totalQuestions,
     correctAnswers |-> 0, difficulty |-> difficulty]

IsLearning(s) ==
    s.class \in {"BeginnerLearningModeScoring", "AdvancedLearningModeScoring"}

\* a learning scorer that counts the wrong answer against the correct ones
LearningMarkIncorrectCounting(s) ==
    [s EXCEPT !.correctAnswers = Max(@ - 1, 0)]

\* markIncorrect of a learning scorer has an empty body
LearningMarkIncorrect(s) == s

LearningMarkCorrect(s) == [s EXCEPT !.correctAnswers = @ + 1]

\* the percentage correct, in fixed point
getAccuracyPercent(s) ==
    IF s.totalQuestions = 0 THEN 0
    ELSE (s.correctAnswers * 100 * SCALE) \div s.totalQuestions

\* the beginner thresholds with 60% exclusive
BeginnerLearningStarsExclusive(s) ==
    LET accuracy == getAccuracyPercent(s)
    IN  IF accuracy >= 80 * SCALE THEN 3
        ELSE IF accuracy > 60 * SCALE THEN 2
        ELSE 1

BeginnerLearningStars(s) ==
    LET accuracy == getAccuracyPercent(s)
    IN  IF accuracy >= 80 * SCALE THEN 3
        ELSE IF accuracy >= 60 * SCALE THEN 2
        ELSE 1

AdvancedLearningStars(s) ==
    LET accuracy == getAccuracyPercent(s)
    IN  IF accuracy >= 90 * SCALE THEN 3
        ELSE IF accuracy > 70 * SCALE THEN 2
        ELSE 1

\* accuracy% * levelWeight * 1.0
LearningProficiencyScore(s) == Weighted(getAccuracyPercent(s), s.difficulty, 10)

LearningScores(s) ==
    [displayScore |-> Round(getAccuracyPercent(s)),
     proficiencyScore |-> LearningProficiencyScore(s),
     stars |-> IF s.class = "AdvancedLearningModeScoring"
               THEN AdvancedLearningStars(s) ELSE BeginnerLearningStars(s),
     correctAnswers |-> s.correctAnswers,
     totalQuestions |-> s.totalQuestions]

LearningReset(s) == [s EXCEPT !.correctAnswers = 0]

(* Marathon mode *)

\* this.maxNotesForProficiency
maxNotesForProficiency == 30

BeginnerMarathonScoring(difficulty) ==
    [class |-> "BeginnerMarathonScoring", correctAnswers |-> 0, totalAnswers |-> 0,
     difficulty |-> difficulty]

AdvancedMarathonScoring(difficulty) ==
    [class |-> "AdvancedMarathonScoring", correctAnswers |-> 0, totalAnswers |-> 0,
     difficulty |-> difficulty]

IsMarathon(s) == s.class \in {"BeginnerMarathonScoring", "AdvancedMarathonScoring"}

\* a markCorrect that leaves the count of answers
MarathonMarkCorrectOnly(s) == [s EXCEPT !.correctAnswers = @ + 1]

MarathonMarkCorrect(s) ==
    [s EXCEPT !.correctAnswers = @ + 1, !.totalAnswers = @ + 1]

MarathonMarkIncorrect(s) == [s EXCEPT !.totalAnswers = @ + 1]

\* 100 points per correct answer
MarathonTotalPoints(s) == s.correctAnswers * 100

BeginnerMarathonStars(s) ==
    LET points == MarathonTotalPoints(s)
    IN  IF points >= 1000 THEN 3
        ELSE IF points >= 500 THEN 2
        ELSE 1

\* the advanced thresholds with 1000 points inclusive
AdvancedMarathonStarsInclusive(s) ==
    LET points == MarathonTotalPoints(s)
    IN  IF points >= 2000 THEN 3
        ELSE IF points >= 1000 THEN 2
        ELSE 1

AdvancedMarathonStars(s) ==
    LET points == MarathonTotalPoints(s)
    IN  IF points >= 2000 THEN 3
        ELSE IF points > 1000 THEN 2
        ELSE 1

\* the accuracy of the whole session, without the cap
MarathonProficiencyScoreUncapped(s) ==
    IF s.totalAnswers = 0 THEN 0
    ELSE Weighted((s.correctAnswers * 100 * SCALE) \div s.totalAnswers,
                  s.difficulty, 12)

\* min(correct, 30) / min(total, 30) * 100 * levelWeight * 1.2
MarathonProficiencyScore(s) ==
    LET notesToConsider == Min(s.totalAnswers, maxNotesForProficiency)
    IN  IF notesToConsider = 0 THEN 0
        ELSE LET cappedCorrect == Min(s.correctAnswers, maxNotesForProficiency)
                 accuracy == (cappedCorrect * 100 * SCALE) \div notesToConsider
             IN  Weighted(accuracy, s.difficulty, 12)

MarathonScores(s) ==
    [displayScore |-> MarathonTotalPoints(s),
     proficiencyScore |-> MarathonProficiencyScore(s),
     stars |-> IF s.class = "AdvancedMarathonScoring"
               THEN AdvancedMarathonStars(s) ELSE BeginnerMarathonStars(s),
     correctAnswers |-> s.correctAnswers,
     totalAnswers |-> s.totalAnswers]

MarathonReset(s) == [s EXCEPT !.correctAnswers = 0, !.totalAnswers = 0]

(* Speed mode *)

BeginnerSpeedModeScoring(difficulty, intervalSpeed) ==
    [class |-> "BeginnerSpeedModeScoring", correctAnswers |-> 0, wrongAnswers |-> 0,
     difficulty |-> difficulty, intervalSpeed |-> intervalSpeed]

\* the advanced speed scorer: two counters, the difficulty and the interval
AdvancedSpeedModeScoring(difficulty, intervalSpeed) ==
    [class |-> "AdvancedSpeedModeScoring", correctAnswers |-> 0, wrongAnswers |-> 0,
     difficulty |-> difficulty, intervalSpeed |-> intervalSpeed]

IsSpeed(s) == s.class \in {"BeginnerSpeedModeScoring", "AdvancedSpeedModeScoring"}

SpeedMarkCorrect(s) == [s EXCEPT !.correctAnswers = @ + 1]

SpeedMarkIncorrect(s) == [s EXCEPT !.wrongAnswers = @ + 1]

\* 100 points per correct answer, no penalty
SpeedTotalPoints(s) == s.correctAnswers * 100

\* thresholds that ignore the interval
SpeedStarsUnscaled(s) ==
    LET points == SpeedTotalPoints(s)
    IN  IF points >= 2500 THEN 3
        ELSE IF points >= 1500 THEN 2
        ELSE 1

\* points >= 2500 * (1000 / intervalSpeed), and 1500 likewise, for an interval > 0
SpeedStars(s) ==
    LET points == SpeedTotalPoints(s)
    IN  IF points * s.intervalSpeed >= 2500 * 1000 THEN 3
        ELSE IF points * s.intervalSpeed >= 1500 * 1000 THEN 2
        ELSE 1

\* Math.max(0, correct * 100 - wrong * 50)
SpeedRawProficiency(s) == Max(0, s.correctAnswers * 100 - s.wrongAnswers * 50)

\* a proficiency that goes below zero
SpeedProficiencyScoreUnfloored(s) ==
    (s.correctAnswers * 100 - s.wrongAnswers * 50)
        * levelWeights(s.difficulty) * 15 * (SCALE \div 100)

\* rawProficiency * levelWeight * 1.5, in fixed point
SpeedProficiencyScore(s) ==
    SpeedRawProficiency(s) * levelWeights(s.difficulty) * 15 * (SCALE \div 100)

BeginnerSpeedScores(s) ==
    [displayScore |-> SpeedTotalPoints(s),
     proficiencyScore |-> SpeedProficiencyScore(s),
     stars |-> SpeedStars(s),
     correctAnswers |-> s.correctAnswers,
     wrongAnswers |-> s.wrongAnswers]

\* the advanced speed scorer's result: the score is the penalised one
AdvancedSpeedScores(s) ==
    [displayScore |-> SpeedRawProficiency(s),
     proficiencyScore |-> SpeedProficiencyScore(s),
     stars |-> SpeedStars(s),
     correctAnswers |-> s.correctAnswers,
     wrongAnswers |-> s.wrongAnswers]

SpeedReset(s) == [s EXCEPT !.correctAnswers = 0, !.wrongAnswers = 0]

(* The methods of a scorer, by its class *)

markCorrect(s) ==
    CASE IsLearning(s) -> LearningMarkCorrect(s)
      [] IsMarathon(s) -> MarathonMarkCorrect(s)
      [] IsSpeed(s) -> SpeedMarkCorrect(s)

markIncorrect(s) ==
    CASE IsLearning(s) -> LearningMarkIncorrect(s)
      [] IsMarathon(s) -> MarathonMarkIncorrect(s)
      [] IsSpeed(s) -> SpeedMarkIncorrect(s)

getProficiencyScore(s) ==
    CASE IsLearning(s) -> LearningProficiencyScore(s)
      [] IsMarathon(s) -> MarathonProficiencyScore(s)
      [] IsSpeed(s) -> SpeedProficiencyScore(s)

getScores(s) ==
    CASE IsLearning(s) -> LearningScores(s)
      [] IsMarathon(s) -> MarathonScores(s)
      [] s.class = "BeginnerSpeedModeScoring" -> BeginnerSpeedScores(s)
      [] s.class = "AdvancedSpeedModeScoring" -> AdvancedSpeedScores(s)

\* a reset that leaves the count of correct answers
resetKeepingCorrect(s) ==
    CASE IsLearning(s) -> s
      [] IsMarathon(s) -> [s EXCEPT !.totalAnswers = 0]
      [] IsSpeed(s) -> [s EXCEPT !.wrongAnswers = 0]

reset(s) ==
    CASE IsLearning(s) -> LearningReset(s)
      [] IsMarathon(s) -> MarathonReset(s)
      [] IsSpeed(s) -> SpeedReset(s)

(* ScoringManager *)

\* the options object of createScorer: any of its three properties may be absent
NoOptions == <<>>

Option(options, name, default) ==
    IF name \in DOMAIN options THEN options[name] ELSE default

\* a factory that builds the beginner scorer whatever the player type
createScorerBeginnerOnly(mode, playerType, options) ==
    LET difficulty == Option(options, "difficulty", "basic")
        totalQuestions == Option(options, "totalQuestions", 20)
        intervalSpeed == Option(options, "intervalSpeed", 2000)
    IN  CASE mode = "learning" ->
               [threw |-> FALSE,
                scorer |-> BeginnerLearningModeScoring(difficulty, totalQuestions)]
          [] mode = "marathon" ->
               [threw |-> FALSE, scorer |-> BeginnerMarathonScoring(difficulty)]
          [] mode = "speed" ->
               [threw |-> FALSE,
                scorer |-> BeginnerSpeedModeScoring(difficulty, intervalSpeed)]
          [] OTHER ->
               [threw |-> TRUE,
                error |-> [name |-> "Error",
                           message |-> <<"Unknown game mode: ", mode>>]]

\* the scorer createScorer returns, or the error it throws
createScorer(mode, playerType, options) ==
    LET difficulty == Option(options, "difficulty", "basic")
        totalQuestions == Option(options, "totalQuestions", 20)
        intervalSpeed == Option(options, "intervalSpeed", 2000)
        isAdvanced == playerType = "advanced"
    IN  CASE mode = "learning" ->
               [threw |-> FALSE,
                scorer |-> IF isAdvanced
                           THEN AdvancedLearningModeScoring(difficulty, totalQuestions)
                           ELSE BeginnerLearningModeScoring(difficulty, totalQuestions)]
          [] mode = "marathon" ->
               [threw |-> FALSE,
                scorer |-> IF isAdvanced THEN AdvancedMarathonScoring(difficulty)
                           ELSE BeginnerMarathonScoring(difficulty)]
          [] mode = "speed" ->
               [threw |-> FALSE,
                scorer |-> IF isAdvanced
                           THEN AdvancedSpeedModeScoring(difficulty, intervalSpeed)
                           ELSE BeginnerSpeedModeScoring(difficulty, intervalSpeed)]
          [] OTHER ->
               [threw |-> TRUE,
                error |-> [name |-> "Error",
                           message |-> <<"Unknown game mode: ", mode>>]]

\* localStorage.getItem('transposition-enabled') === 'true'
getPlayerType == IF transpositionEnabled THEN "advanced" ELSE "beginner"

(* A game: one scorer is created, marked, read and reset *)

Modes == {"learning", "marathon", "speed", "practice"}

PlayerTypes == {"beginner", "advanced", "expert"}

TotalQuestionsGiven == {0, 8, 20}

IntervalSpeeds == {1000, 2000, 3000}

ScorerOptions ==
    {NoOptions}
    \cup {[difficulty |-> d, totalQuestions |-> q, intervalSpeed |-> i] :
            d \in Difficulties, q \in TotalQuestionsGiven, i \in IntervalSpeeds}

\* the answers the scorer has been given, as far as it counts them
Answers(s) ==
    CASE IsLearning(s) -> s.correctAnswers
      [] IsMarathon(s) -> s.totalAnswers
      [] IsSpeed(s) -> s.correctAnswers + s.wrongAnswers

\* the answers a game of the scorer's mode runs to
AnswersLimit(s) ==
    CASE IsLearning(s) -> MaxLearningAnswers
      [] IsMarathon(s) -> MaxMarathonAnswers
      [] IsSpeed(s) -> MaxSpeedAnswers

Made(op, mode, playerType, options, made) ==
    /\ scorer' = IF made.threw THEN scorer ELSE made.scorer
    /\ ret' = [op |-> op, mode |-> mode, playerType |-> playerType,
               options |-> options, threw |-> made.threw]
              @@ (IF made.threw THEN [error |-> made.error] ELSE <<>>)
    /\ UNCHANGED <<localStorage, transpositionEnabled, now, sessions, game>>

CreateScorer ==
    /\ scorer = NoScorer
    /\ \E mode \in Modes, playerType \in PlayerTypes, options \in ScorerOptions :
           Made("createScorer", mode, playerType, options,
                createScorer(mode, playerType, options))

\* ScoringManager.create: the player type comes from the setting
Create ==
    /\ scorer = NoScorer
    /\ \E mode \in Modes, options \in ScorerOptions :
           Made("create", mode, getPlayerType, options,
                createScorer(mode, getPlayerType, options))

MarkCorrect ==
    /\ scorer # NoScorer
    /\ Answers(scorer) < AnswersLimit(scorer)
    /\ scorer' = markCorrect(scorer)
    /\ ret' = [op |-> "markCorrect"]
    /\ UNCHANGED <<localStorage, transpositionEnabled, now, sessions, game>>

MarkIncorrect ==
    /\ scorer # NoScorer
    /\ Answers(scorer) < AnswersLimit(scorer)
    /\ scorer' = markIncorrect(scorer)
    /\ ret' = [op |-> "markIncorrect"]
    /\ UNCHANGED <<localStorage, transpositionEnabled, now, sessions, game>>

GetScores ==
    /\ scorer # NoScorer
    /\ ret' = [op |-> "getScores", result |-> getScores(scorer)]
    /\ UNCHANGED <<localStorage, transpositionEnabled, now, sessions, scorer, game>>

Reset ==
    /\ scorer # NoScorer
    /\ scorer' = reset(scorer)
    /\ ret' = [op |-> "reset", before |-> scorer]
    /\ UNCHANGED <<localStorage, transpositionEnabled, now, sessions, game>>

NextScore ==
    \/ CreateScorer
    \/ Create
    \/ MarkCorrect
    \/ MarkIncorrect
    \/ GetScores
    \/ Reset

SpecScore == Init /\ [][NextScore]_vars

---------------------------------------------------------------------------
(* The game loop: initGame, its input handler, its timers and its listeners *)

\* getCurrentUser() of a player who is not signed in
NoUser == <<"null">>

\* the lives of a game that is not a marathon
Infinity == <<"Infinity">>

\* a learning game ends with the answer to its 20th note
LearningNotes == 20

\* the lives a marathon starts with
MarathonLives == 3

GameModes == {"learning", "marathon", "speed"}

GameDifficulties == {"basic"}

SpeedTimeouts == {1000, 2000}

GameUsers == {NoUser, User1}

\* the notes a game of the mode shows, at most
NotesLimit(mode) == IF mode = "learning" THEN MaxLearningNotes ELSE MaxNotes

\* the state initGame sets up before its first render; the page shows notes for
\* the instrument and key, so getCurrentNoteData() finds one
NewGame(mode, difficulty, user) ==
    [mode |-> mode, difficulty |-> difficulty, user |-> user,
     instrument |-> Bb, key |-> Bb,
     paused |-> FALSE,
     lives |-> IF mode = "marathon" THEN MarathonLives ELSE Infinity,
     noteCount |-> 0, correctCount |-> 0, ended |-> FALSE,
     pendingWrongTimer |-> FALSE,   \* the wrong-tolerance timer is set
     speedTimer |-> "none",         \* what set the speed timer, if it is set
     noteWasMarkedWrong |-> FALSE,
     renders |-> 0,                 \* the setTimeout(renderCurrent, ..) calls pending
     recordSessionCalls |-> 0]      \* the calls of recordSession made so far

\* renderCurrent: the note is counted and its wrong marker reset; in speed mode
\* the note's timer is started anew
renderCurrent(g) ==
    [g EXCEPT !.noteCount = @ + 1,
              !.noteWasMarkedWrong = FALSE,
              !.speedTimer = IF g.mode = "speed" THEN "render" ELSE @]

\* the callback of the speed timer, the same in renderCurrent and the game:resume
\* listener: the note is marked wrong and the next one scheduled
speedTimerCallback(g) ==
    [g EXCEPT !.speedTimer = "none",
              !.noteWasMarkedWrong = TRUE,
              !.renders = @ + 1]

\* the time per note the session reports: the mean of noteTimes, or the mode's
\* default when no answer was timed
AvgSpeeds(g) ==
    {IF g.mode = "speed" THEN (3 * SCALE) \div 2 ELSE 2 * SCALE}
    \cup (IF g.correctCount > 0 THEN {SCALE} ELSE {})

\* the end of a session: the scores are read and, with a signed-in player, the
\* session is recorded on the track of the instrument and key
EndSession(g, s, saves) ==
    IF saves /\ g.user # NoUser
    THEN /\ game' = [g EXCEPT !.recordSessionCalls = @ + 1]
         /\ \E avgSpeed \in AvgSpeeds(g), quotaExceeded \in BOOLEAN :
                recordSession(g.user, g.instrument, g.key,
                              [score |-> g.correctCount, total |-> g.noteCount,
                               avgSpeed |-> avgSpeed, difficulty |-> g.difficulty,
                               mode |-> g.mode, hasNotes |-> TRUE,
                               notesPracticed |-> <<Note1, Note2>>],
                              quotaExceeded)
    ELSE /\ game' = g
         /\ ret' = [op |-> "game:end", scores |-> getScores(s)]
         /\ UNCHANGED <<localStorage, sessions>>

\* the press is accepted, at once or within the tolerance window: a point is
\* awarded unless the note was marked wrong, and the learning game ends with the
\* last note
Accepted(g, op) ==
    LET awarded == ~g.noteWasMarkedWrong
        counted == IF awarded THEN [g EXCEPT !.correctCount = @ + 1] ELSE g
        marked == IF awarded THEN markCorrect(scorer) ELSE scorer
    IN  /\ scorer' = marked
        /\ IF g.mode = "learning" /\ ~g.ended /\ g.noteCount >= LearningNotes
           THEN EndSession([counted EXCEPT !.ended = TRUE], marked, TRUE)
           ELSE /\ counted.renders < MaxPendingRenders
                /\ game' = [counted EXCEPT !.renders = @ + 1]
                /\ ret' = [op |-> op]
                /\ UNCHANGED <<localStorage, sessions>>

\* a wrong answer that costs no life
loseNoLife(g) == g

\* lives--
loseLife(g) == [g EXCEPT !.lives = @ - 1]

\* the press is still wrong after the tolerance window
Rejected(g, op) ==
    LET marked == [g EXCEPT !.noteWasMarkedWrong = TRUE]
        s == markIncorrect(scorer)
    IN  /\ scorer' = s
        /\ CASE g.mode = "marathon" ->
                  LET lost == loseLife(marked)
                  IN  IF lost.lives <= 0
                      THEN EndSession([lost EXCEPT !.ended = TRUE], s, TRUE)
                      ELSE /\ lost.renders < MaxPendingRenders
                           /\ game' = [lost EXCEPT !.renders = @ + 1]
                           /\ ret' = [op |-> op]
                           /\ UNCHANGED <<localStorage, sessions>>
             [] g.mode = "learning" /\ ~g.ended /\ g.noteCount >= LearningNotes ->
                  EndSession([marked EXCEPT !.ended = TRUE], s, FALSE)
             [] g.mode = "speed" ->
                  /\ marked.renders < MaxPendingRenders
                  /\ game' = [marked EXCEPT !.renders = @ + 1]
                  /\ ret' = [op |-> op]
                  /\ UNCHANGED <<localStorage, sessions>>
             [] OTHER ->
                  /\ game' = marked
                  /\ ret' = [op |-> op]
                  /\ UNCHANGED <<localStorage, sessions>>

Playing == game # NoGame

\* initGame: the scorer is made for the mode and the player type, and the first
\* note rendered
InitGame ==
    /\ game = NoGame
    /\ scorer = NoScorer
    /\ \E mode \in GameModes, difficulty \in GameDifficulties,
          speedTimeout \in SpeedTimeouts, user \in GameUsers :
           /\ mode # "speed" => speedTimeout = 2000
           /\ scorer' = createScorer(mode, getPlayerType,
                                     [difficulty |-> difficulty,
                                      totalQuestions |-> LearningNotes,
                                      intervalSpeed |-> speedTimeout]).scorer
           /\ game' = renderCurrent(NewGame(mode, difficulty, user))
           /\ ret' = [op |-> "initGame", mode |-> mode]
    /\ UNCHANGED <<localStorage, transpositionEnabled, now, sessions>>

\* handleInput: a click, a touch or a key gives the buttons now pressed
HandleInput ==
    /\ Playing
    /\ \E matches \in BOOLEAN :
           IF game.ended \/ game.paused
           THEN /\ ret' = [op |-> "handleInput"]
                /\ UNCHANGED <<localStorage, sessions, scorer, game>>
           ELSE IF matches
                THEN Accepted([game EXCEPT !.pendingWrongTimer = FALSE,
                                           !.speedTimer = "none"], "handleInput")
                ELSE /\ game' = [game EXCEPT !.pendingWrongTimer = TRUE]
                     /\ ret' = [op |-> "handleInput"]
                     /\ UNCHANGED <<localStorage, sessions, scorer>>
    /\ UNCHANGED <<transpositionEnabled, now>>

\* the wrong-tolerance timer fires: the buttons are read again
PendingWrongTimer ==
    /\ Playing
    /\ game.pendingWrongTimer
    /\ LET g == [game EXCEPT !.pendingWrongTimer = FALSE, !.speedTimer = "none"]
       IN  \E reMatches \in BOOLEAN :
               IF reMatches THEN Accepted(g, "pendingWrongTimer")
               ELSE Rejected(g, "pendingWrongTimer")
    /\ UNCHANGED <<transpositionEnabled, now>>

\* the speed timer fires: the note's time is up
SpeedTimer ==
    /\ Playing
    /\ game.speedTimer # "none"
    /\ game.renders < MaxPendingRenders
    /\ game' = speedTimerCallback(game)
    /\ ret' = [op |-> "speedTimer", startedBy |-> game.speedTimer]
    /\ UNCHANGED <<localStorage, transpositionEnabled, now, sessions, scorer>>

\* a scheduled renderCurrent runs
RenderCurrent ==
    /\ Playing
    /\ game.renders > 0
    /\ game.noteCount < NotesLimit(game.mode)
    /\ game' = renderCurrent([game EXCEPT !.renders = @ - 1])
    /\ ret' = [op |-> "renderCurrent"]
    /\ UNCHANGED <<localStorage, transpositionEnabled, now, sessions, scorer>>

\* the game:pause listener
GamePause ==
    /\ Playing
    /\ ~game.paused
    /\ game' = [game EXCEPT !.paused = TRUE, !.speedTimer = "none",
                            !.pendingWrongTimer = FALSE]
    /\ ret' = [op |-> "game:pause"]
    /\ UNCHANGED <<localStorage, transpositionEnabled, now, sessions, scorer>>

\* the game:resume listener
GameResume ==
    /\ Playing
    /\ game.paused
    /\ game' = [game EXCEPT
                  !.paused = FALSE,
                  !.speedTimer = IF /\ game.mode = "speed"
                                    /\ ~game.ended
                                    /\ ~game.noteWasMarkedWrong
                                 THEN "resume" ELSE @]
    /\ ret' = [op |-> "game:resume"]
    /\ UNCHANGED <<localStorage, transpositionEnabled, now, sessions, scorer>>

\* onExternalGameEnd: a game:end event from outside the loop; the events the
\* loop dispatches itself find ended set
ExternalGameEnd ==
    /\ Playing
    /\ \E reason \in {"timeout", "quit"} :
           IF ~game.ended /\ reason = "timeout" /\ game.mode = "speed"
           THEN EndSession([game EXCEPT !.ended = TRUE], scorer, TRUE)
           ELSE /\ ret' = [op |-> "onExternalGameEnd"]
                /\ UNCHANGED <<localStorage, sessions, game>>
    /\ UNCHANGED <<transpositionEnabled, now, scorer>>

\* onTranspositionChange: the panel switches transposition off, and the game
\* goes back to the instrument and key it started with
TranspositionChange ==
    /\ Playing
    /\ game.noteCount < NotesLimit(game.mode)
    /\ \E detail \in {[enabled |-> FALSE], [instrument |-> "default"]} :
           /\ game' = renderCurrent([game EXCEPT !.instrument = Bb, !.key = Bb])
           /\ ret' = [op |-> "onTranspositionChange"]
    /\ UNCHANGED <<localStorage, transpositionEnabled, now, sessions, scorer>>

NextGame ==
    \/ InitGame
    \/ HandleInput
    \/ PendingWrongTimer
    \/ SpeedTimer
    \/ RenderCurrent
    \/ GamePause
    \/ GameResume
    \/ ExternalGameEnd
    \/ TranspositionChange

SpecGame == Init /\ [][NextGame]_vars

---------------------------------------------------------------------------
(* Properties *)

Recorded == ret.op = "recordSession" /\ ~ret.threw
Read == ret.op \in {"getCurrentProficiency", "getDefaultProficiency"} /\ ~ret.threw

RetKey == getKey(ret.userId, ret.instrument, ret.key)

\* the item is a parsed record
IsRecord(item) == item.kind = "json"

\* the competency and the elapsed days recordSession starts from, read off the
\* item that was persisted when it was called
PersistedPrior == IF IsRecord(ret.before) THEN ret.before.value.proficiencyScore ELSE 2000
ElapsedDays ==
    IF IsRecord(ret.before) THEN (now - ret.before.value.lastPractice) \div 2 ELSE 0

Blend(prior, performance) ==
    (prior * (SCALE - learningRate) + performance * learningRate) \div SCALE

C2_CompetencyInRange ==
    /\ \A k \in DOMAIN localStorage :
           IsRecord(localStorage[k]) =>
               /\ localStorage[k].value.proficiencyScore \in 0..SCALE
               /\ \A i \in 1..Len(localStorage[k].value.sessionHistory) :
                      localStorage[k].value.sessionHistory[i].proficiency \in 0..SCALE
    /\ (Recorded \/ Read) =>
           /\ ret.proficiencyScore \in 0..SCALE
           /\ ret.proficiencyDisplay \in 0..100

\* a session with more correct answers than questions has been recorded
C2_Witness ==
    /\ Recorded
    /\ ret.sessionData.score > ret.sessionData.total
    /\ ret.locals.metrics.accuracy > SCALE

ReadOps == {"getCurrentProficiency", "getDefaultProficiency", "getAllCombinations"}

\* the arguments of a call
CallArgs(r) ==
    IF r.op = "getAllCombinations" THEN <<r.userId>>
    ELSE <<r.userId, r.instrument, r.key>>

C4_TracksIndependent ==
    [][ sessions' # sessions =>
          LET t == <<ret'.userId, ret'.instrument, ret'.key>>
          IN  \A b \in AllTracks \ {t} :
                  /\ getKey(b[1], b[2], b[3]) # getKey(t[1], t[2], t[3])
                  /\ getItem(localStorage', getKey(b[1], b[2], b[3]))
                       = getItem(localStorage, getKey(b[1], b[2], b[3])) ]_vars

\* a session has been recorded while another track had a record
C4_Witness ==
    /\ Recorded
    /\ \E k \in DOMAIN localStorage : k # RetKey /\ IsRecord(localStorage[k])

\* C5: a track's history has min(n, 30) entries after n sessions; a session appends
\* its record at the end and, when the history was full, drops the oldest entry,
\* the others staying as they were and in order.
C5_HistoryCap ==
    /\ \A k \in DOMAIN localStorage :
           IsRecord(localStorage[k]) =>
               Len(localStorage[k].value.sessionHistory) = Min(SessionCount(k), MaxHistory)
    /\ Recorded =>
           LET old == IF IsRecord(ret.before) THEN ret.before.value.sessionHistory
                      ELSE <<>>
               kept == IF Len(old) < MaxHistory THEN old ELSE Tail(old)
           IN  localStorage[RetKey].value.sessionHistory
                   = kept \o <<ret.locals.sessionRecord>>

\* a session recorded on a full history has evicted the oldest entry
C5_Witness ==
    /\ Recorded
    /\ SessionCount(RetKey) > MaxHistory
    /\ Len(localStorage[RetKey].value.sessionHistory) = MaxHistory
    /\ ret.before.value.sessionHistory[1] # localStorage[RetKey].value.sessionHistory[1]

\* the notes a stored item covers
NotesOf(item) == IF IsRecord(item) THEN Range(item.value.notesCovered) ELSE {}

\* C6: after recordSession the persisted notesCovered is the union of the set
\* persisted before and the session's notes, each note once.
C6_NotesOnlyGrow ==
    Recorded =>
        LET after == localStorage[RetKey].value.notesCovered
            practiced == IF ret.sessionData.hasNotes
                         THEN Range(ret.sessionData.notesPracticed) ELSE {}
        IN  /\ Range(after) = NotesOf(ret.before) \cup practiced
            /\ Cardinality(Range(after)) = Len(after)
            /\ Cardinality(Range(after)) >= Cardinality(NotesOf(ret.before))

\* a session repeating a note has been recorded on a track that covered another
C6_Witness ==
    /\ Recorded
    /\ ret.sessionData.notesPracticed = <<Note2, Note2>>
    /\ NotesOf(ret.before) = {Note1}
    /\ NotesOf(localStorage[RetKey]) = {Note1, Note2}

\* C7: the performance recordSession blends into the competency is the
\* weightedPerformance it returns, rawPerformance * weight / 4.0: 1.0 for a perfect
\* raw performance at the hardest tier and 0.25 at the easiest.
C7_BlendsWeightedPerformance ==
    Recorded =>
        /\ ret.weightedPerformance
             = Mul(ret.locals.rawPerformance,
                   Div(LevelWeight(ret.sessionData.difficulty), LevelWeight("advanced")))
        /\ ret.locals.performance = ret.weightedPerformance
        /\ (ret.locals.rawPerformance = SCALE /\ ret.sessionData.difficulty = "advanced")
               => ret.locals.performance = SCALE
        /\ (ret.locals.rawPerformance = SCALE /\ ret.sessionData.difficulty = "basic")
               => ret.locals.performance = 2500

\* C8: a track without a record reads as competency 0.2, display score 20, no
\* sessions, no notes and no days since practice, and its first recordSession
\* blends the session into exactly 0.2, undecayed.
C8_MissingTrackSeeded ==
    /\ (ret.op = "getCurrentProficiency" /\ RetKey \notin DOMAIN localStorage) =>
           /\ ~ret.threw
           /\ ret.proficiencyScore = 2000
           /\ ret.proficiencyDisplay = 20
           /\ ret.totalSessions = 0
           /\ ret.notesCovered = 0
           /\ ret.daysSinceLastPractice = 0
    /\ (Recorded /\ ret.before = NullItem) =>
           /\ ret.locals.prior = 2000
           /\ ret.locals.daysSince = 0
           /\ ret.proficiencyScore = Clamp01(Blend(2000, ret.locals.performance))

\* a track without a record has been read after the clock has run
C8_Witness ==
    /\ ret.op = "getCurrentProficiency"
    /\ RetKey \notin DOMAIN localStorage
    /\ now >= 2
    /\ ret.proficiencyDisplay = 20

\* C9: recordSession and getCurrentProficiency on a track whose stored value does
\* not parse do not fail: they go on from a fresh record.
C9_CorruptTreatedAsNew ==
    (/\ ret.op \in {"recordSession", "getCurrentProficiency"}
     /\ getItem(localStorage, RetKey) = CorruptItem)
        => ~ret.threw

\* C10: a recordSession whose save fails still hands the caller the competency,
\* the display score and the band it computed.
C10_ResultSurvivesFailedSave ==
    (ret.op = "recordSession" /\ ret.threw /\ ret.error = "QuotaExceededError")
        => {"proficiencyScore", "proficiencyDisplay", "band"} \subseteq DOMAIN ret

\* the last entry of a history
LastRecord(sessionHistory) == sessionHistory[Len(sessionHistory)]

\* C11: recordSession changes a track's record in one write: after a call that
\* returned, the persisted competency, lastPractice, newest history entry and
\* covered notes are all those of the call, and after a call whose save failed (or
\* that failed before it) the store is exactly as it was.
C11_RecordWrittenAsAUnit ==
    [][ ret'.op = "recordSession" =>
          LET k == getKey(ret'.userId, ret'.instrument, ret'.key)
          IN  IF ret'.threw THEN localStorage' = localStorage
              ELSE LET v == localStorage'[k].value
                       practiced == IF ret'.sessionData.hasNotes
                                    THEN Range(ret'.sessionData.notesPracticed) ELSE {}
                   IN  /\ v.proficiencyScore = ret'.proficiencyScore
                       /\ v.lastPractice = now'
                       /\ Len(v.sessionHistory) >= 1
                       /\ LastRecord(v.sessionHistory).timestamp = now'
                       /\ LastRecord(v.sessionHistory).proficiency = ret'.proficiencyScore
                       /\ practiced \subseteq Range(v.notesCovered)
                       /\ \A j \in (DOMAIN localStorage' \cup DOMAIN localStorage) \ {k} :
                              getItem(localStorage', j) = getItem(localStorage, j) ]_vars

\* the save of a session failed on a track that has a record of an earlier day
C11_Witness ==
    /\ ret.op = "recordSession"
    /\ ret.threw
    /\ ret.error = "QuotaExceededError"
    /\ IsRecord(getItem(localStorage, RetKey))
    /\ localStorage[RetKey].value.lastPractice < now

\* C12: recordSession of a session with total = 0 fails only where any session
\* would (an unparsable item, a failed save); its accuracy is 0, the record it
\* appends has accuracy 0, and the competency it returns and persists is in [0,1].
C12_EmptySessionRecorded ==
    [][ ret'.op = "recordSession" =>
          LET k == getKey(ret'.userId, ret'.instrument, ret'.key)
          IN  /\ ret'.threw =>
                     \/ ret'.error = "QuotaExceededError"
                     \/ getItem(localStorage, k) = CorruptItem
              /\ (~ret'.threw /\ ret'.sessionData.total = 0) =>
                     /\ ret'.locals.metrics.accuracy = 0
                     /\ LastRecord(localStorage'[k].value.sessionHistory).accuracy = 0
                     /\ LastRecord(localStorage'[k].value.sessionHistory).timestamp = now'
                     /\ ret'.proficiencyScore \in 0..SCALE
                     /\ localStorage'[k].value.proficiencyScore = ret'.proficiencyScore
        ]_vars

\* a session without questions has been recorded after a session with some
C12_Witness ==
    /\ Recorded
    /\ ret.sessionData.total = 0
    /\ Len(localStorage[RetKey].value.sessionHistory) = 2
    /\ localStorage[RetKey].value.sessionHistory[1].accuracy > 0
    /\ localStorage[RetKey].value.sessionHistory[2].accuracy = 0

\* C13: calculatePerformance of metrics with accuracy, coverage and consistency
\* in [0,1] and avgSpeed >= 0 is in [0,1] in both tiers, the x1.3 and x1.15
\* boosts included.
C13_PerformanceInRange ==
    ret.op = "calculatePerformance" =>
        /\ ret.args[1].accuracy \in 0..SCALE
        /\ ret.args[1].coverage \in 0..SCALE
        /\ ret.args[1].consistency \in 0..SCALE
        /\ ret.args[1].avgSpeed >= 0
        /\ ret.result \in 0..SCALE

\* a beginner-tier call whose weighted sum is 1.0 before the x1.3 boost
C13_Witness ==
    /\ ret.op = "calculatePerformance"
    /\ ret.beginnerMode
    /\ ret.args[1] = [accuracy |-> SCALE, avgSpeed |-> 0, coverage |-> SCALE,
                      consistency |-> SCALE]
    /\ ret.result = SCALE

\* C14: calculatePerformance, applyDecay and updateProficiency called again with
\* the arguments of the call before return what that call returned, whatever the
\* 'transposition-enabled' setting has become in between.
C14_EvaluatorIsPure ==
    [][ (/\ ret.op \in {"calculatePerformance", "applyDecay", "updateProficiency"}
         /\ ret'.op = ret.op
         /\ ret'.args = ret.args)
           => ret'.result = ret.result ]_vars

TierWeight(difficulty) ==
    CASE difficulty = "basic" -> 10
      [] difficulty = "beginner" -> 15
      [] difficulty = "intermediate" -> 25
      [] difficulty = "advanced" -> 40

\* C17: calculateWeightedProficiency(raw, tier) is raw * weight(tier) / 4.0 with
\* the weights 1.0, 1.5, 2.5 and 4.0; 1.0 at basic and 0.4 at intermediate both
\* give 0.25, and the weighted value is never above the raw one.
C17_WeightedByTier ==
    /\ calculateWeightedProficiency(SCALE, "basic") = 2500
    /\ calculateWeightedProficiency(4000, "intermediate") = 2500
    /\ ret.op = "calculateWeightedProficiency" =>
           /\ ret.result <= ret.args[1]
           /\ ret.args[2] \in {"basic", "beginner", "intermediate", "advanced"}
                  => ret.result = (ret.args[1] * TierWeight(ret.args[2])) \div 40

\* a raw performance of 0.4 has been weighted at intermediate
C17_Witness ==
    /\ ret.op = "calculateWeightedProficiency"
    /\ ret.args = <<4000, "intermediate">>
    /\ ret.result = 2500

\* C18: updateProficiency(prev, performance, alpha) returns
\* prev * (1 - alpha) + performance * alpha for the alpha it is given.
C18_UsesGivenAlpha ==
    ret.op = "updateProficiency" =>
        ret.result = (ret.args[1] * (SCALE - ret.args[3]) + ret.args[2] * ret.args[3])
                        \div SCALE

\* the competency persisted for the track of the call r, 0.2 when it has no record
PersistedScore(r) ==
    LET item == getItem(localStorage, getKey(r.userId, r.instrument, r.key))
    IN  IF IsRecord(item) THEN item.value.proficiencyScore ELSE 2000

IsReadOf(r) == r.op = "getCurrentProficiency" /\ ~r.threw

\* applyDecay of the persisted competency does not grow from one day to the next
DecayMonotone(x) ==
    /\ applyDecay(x, 0) = x
    /\ \A d \in 0..MaxReadDays : applyDecay(x, d + 1) <= applyDecay(x, d)

BandTable ==
    <<[from |-> 0, level |-> 1, name |-> "Early Learning"],
      [from |-> 2000, level |-> 2, name |-> "Developing"],
      [from |-> 4000, level |-> 3, name |-> "Functional"],
      [from |-> 6000, level |-> 4, name |-> "Independent"],
      [from |-> 8000, level |-> 5, name |-> "Mastered"]>>

\* the band whose lower bound is the largest one not above c
BandOf(c) ==
    LET i == CHOOSE j \in 1..5 :
                 /\ BandTable[j].from <= c
                 /\ \A h \in 1..5 : BandTable[h].from <= c => h <= j
    IN  [level |-> BandTable[i].level, name |-> BandTable[i].name]

\* the band boundaries and the scores next to them
BandProbes == {0, 1, 1999, 2000, 2001, 3999, 4000, 5999, 6000, 7999, 8000, 9999, SCALE}

\* getProficiencyBand at and around the boundaries: the band of the table, and
\* never a lower band for a higher competency
BandingTotalAndMonotone ==
    /\ \A c \in BandProbes : getProficiencyBand(c) = BandOf(c)
    /\ \A a \in BandProbes, b \in BandProbes :
           a <= b => getProficiencyBand(a).level <= getProficiencyBand(b).level

C20_AllCombinations ==
    (ret.op = "getAllCombinations" /\ ~ret.threw) =>
        /\ DOMAIN ret.results = {<<"B", "b">>, <<"C">>, <<"D">>, <<"E", "b">>}
        /\ \A i \in DOMAIN ret.results :
               /\ DOMAIN ret.results[i]
                    = {<<"A">>, <<"B", "b">>, <<"H">>, <<"C">>, <<"D">>, <<"E", "b">>,
                       <<"E">>, <<"F">>, <<"G">>}
               /\ \A k \in DOMAIN ret.results[i] :
                      /\ ret.results[i][k].isNull <=> (i = k)
                      /\ ~ret.results[i][k].isNull =>
                             ret.results[i][k].value
                               = getCurrentProficiency(ret.userId, i, k)

\* all combinations were read for a player with a record on a track that is not
\* native and a record on the native Bb track
C20_Witness ==
    /\ ret.op = "getAllCombinations"
    /\ ~ret.threw
    /\ ret.userId = User1
    /\ ret.results[<<"C">>][Bb].value.totalSessions >= 1
    /\ ret.results[Bb][Bb].isNull
    /\ IsRecord(getItem(localStorage, getKey(User1, Bb, Bb)))

\* C21: getDefaultProficiency returns what getCurrentProficiency returns for the
\* player's Bb instrument in the key of Bb, and a session recorded on any other
\* track (a transposed combination, or another player's tracks) leaves what it
\* returns for the player as it was.
C21_DefaultIsNativeTrack ==
    /\ [](ret.op = "getDefaultProficiency" =>
             ret = [op |-> "getDefaultProficiency", userId |-> ret.userId,
                    instrument |-> Bb, key |-> Bb]
                   @@ getCurrentProficiency(ret.userId, Bb, Bb))
    /\ [][ sessions' # sessions =>
              \A userId \in Users :
                  <<ret'.userId, ret'.instrument, ret'.key>> # <<userId, Bb, Bb>> =>
                      getDefaultProficiency(userId)' = getDefaultProficiency(userId) ]_vars

\* a session was recorded on the C trumpet in Bb for a player whose native track
\* has a session, so that the headline read has something to lose
C21_Witness ==
    /\ Recorded
    /\ ret.userId = User1
    /\ ret.instrument = <<"C">>
    /\ IsRecord(getItem(localStorage, getKey(User1, Bb, Bb)))
    /\ getDefaultProficiency(User1).totalSessions >= 1
    /\ getDefaultProficiency(User1).proficiencyScore # ret.proficiencyScore

\* C22: the proficiency of a marathon scorer of either tier is
\* min(correct, 30) / min(total, 30) * 100 * difficulty weight * 1.2, and 0 when
\* no answer was given; after 45 answers with 40 correct it is that of 30 correct
\* in 30 answers, which the ratio 40/45 would not give.
C22_MarathonCappedProficiency ==
    IsMarathon(scorer) =>
        LET correct == scorer.correctAnswers
            total == scorer.totalAnswers
            weight == levelWeights(scorer.difficulty) * 12
            proficiency == getScores(scorer).proficiencyScore
        IN  /\ proficiency = getProficiencyScore(scorer)
            /\ total = 0 => proficiency = 0
            /\ total > 0 =>
                 proficiency
                   = (((Min(correct, 30) * 100 * SCALE) \div Min(total, 30)) * weight)
                       \div 100
            /\ (total = 45 /\ correct = 40) =>
                 /\ proficiency = (((30 * 100 * SCALE) \div 30) * weight) \div 100
                 /\ proficiency # (((40 * 100 * SCALE) \div 45) * weight) \div 100

\* an advanced marathon scorer has been read after 45 answers, 40 of them correct
C22_Witness ==
    /\ ret.op = "getScores"
    /\ scorer.class = "AdvancedMarathonScoring"
    /\ scorer.totalAnswers = 45
    /\ scorer.correctAnswers = 40
    /\ scorer.difficulty = "intermediate"
    /\ ret.result.proficiencyScore = 180 * SCALE

\* C23: once a marathon scorer has been given 30 answers, no further markCorrect
\* or markIncorrect changes its proficiency score.
C23_OnlyFirstThirtyAnswers ==
    [][ (/\ IsMarathon(scorer)
         /\ scorer.totalAnswers >= 30
         /\ ret'.op \in {"markCorrect", "markIncorrect"}) =>
            getProficiencyScore(scorer') = getProficiencyScore(scorer) ]_vars

\* the penalised score of a speed scorer: 100 per correct answer minus 50 per
\* incorrect answer, and 0 when that is negative
PenalisedScore(s) ==
    IF s.correctAnswers * 100 >= s.wrongAnswers * 50
    THEN s.correctAnswers * 100 - s.wrongAnswers * 50
    ELSE 0

C25_SpeedStarsScaleWithInterval ==
    scorer.class = "BeginnerSpeedModeScoring" =>
        LET stars == getScores(scorer).stars
            i == scorer.intervalSpeed
            p == scorer.correctAnswers * 100
            doubled == [scorer EXCEPT !.intervalSpeed = 2 * i]
            twice == [scorer EXCEPT !.correctAnswers = 2 * @]
        IN  /\ stars = 3 <=> p * i >= 2500 * 1000
            /\ stars = 2 <=> (1500 * 1000 <= p * i /\ p * i < 2500 * 1000)
            /\ stars = 1 <=> p * i < 1500 * 1000
            /\ getScores(doubled).stars = getScores(twice).stars

\* a speed scorer with an interval of 2000 ms has been read at 1300 points, which
\* is 3 stars there and would be 1 star at 1000 ms
C25_Witness ==
    /\ ret.op = "getScores"
    /\ scorer.class = "BeginnerSpeedModeScoring"
    /\ scorer.intervalSpeed = 2000
    /\ scorer.correctAnswers = 13
    /\ ret.result.stars = 3
    /\ getScores([scorer EXCEPT !.intervalSpeed = 1000]).stars = 1

\* C26: markIncorrect of a learning scorer of either tier leaves every field of
\* getScores as it was; markCorrect raises correctAnswers by exactly 1; the display
\* score is correct / totalQuestions * 100 rounded to the nearest integer, and 0
\* when totalQuestions is 0.
C26_LearningCountsCorrectOnly ==
    [][ IsLearning(scorer') =>
          LET before == getScores(scorer)
              after == getScores(scorer')
              total == scorer'.totalQuestions
          IN  /\ ret'.op = "markIncorrect" => after = before
              /\ ret'.op = "markCorrect" =>
                   /\ after.correctAnswers = before.correctAnswers + 1
                   /\ after.totalQuestions = before.totalQuestions
              /\ total = 0 => after.displayScore = 0
              /\ total > 0 =>
                   after.displayScore
                     = (200 * scorer'.correctAnswers + total) \div (2 * total) ]_vars

\* a learning scorer of 8 questions has been marked incorrect after three correct
\* answers, and shows 38 for 37.5%
C26_Witness ==
    /\ ret.op = "markIncorrect"
    /\ scorer.class = "AdvancedLearningModeScoring"
    /\ scorer.totalQuestions = 8
    /\ scorer.correctAnswers = 3
    /\ getScores(scorer).displayScore = 38

\* accuracy >= percent for a learning scorer, decided in whole numbers
AccuracyAtLeast(s, percent) ==
    IF s.totalQuestions = 0 THEN 0 >= percent
    ELSE 100 * s.correctAnswers >= percent * s.totalQuestions

\* accuracy > percent for a learning scorer, decided in whole numbers
AccuracyAbove(s, percent) ==
    IF s.totalQuestions = 0 THEN 0 > percent
    ELSE 100 * s.correctAnswers > percent * s.totalQuestions

\* C27: a beginner learning scorer gives 3 stars iff accuracy >= 80%, 2 stars iff
\* 60% <= accuracy < 80%, else 1; an advanced one gives 3 stars iff accuracy >= 90%,
\* 2 stars iff 70% < accuracy < 90%, else 1.
C27_LearningStars ==
    /\ scorer.class = "BeginnerLearningModeScoring" =>
         LET stars == getScores(scorer).stars
         IN  /\ stars \in {1, 2, 3}
             /\ stars = 3 <=> AccuracyAtLeast(scorer, 80)
             /\ stars = 2 <=> (AccuracyAtLeast(scorer, 60) /\ ~AccuracyAtLeast(scorer, 80))
    /\ scorer.class = "AdvancedLearningModeScoring" =>
         LET stars == getScores(scorer).stars
         IN  /\ stars \in {1, 2, 3}
             /\ stars = 3 <=> AccuracyAtLeast(scorer, 90)
             /\ stars = 2 <=> (AccuracyAbove(scorer, 70) /\ ~AccuracyAtLeast(scorer, 90))

\* an advanced learning scorer has been read at exactly 70%, 14 of 20, and gives
\* 1 star where a beginner one gives 2
C27_Witness ==
    /\ ret.op = "getScores"
    /\ scorer.class = "AdvancedLearningModeScoring"
    /\ scorer.totalQuestions = 20
    /\ scorer.correctAnswers = 14
    /\ ret.result.stars = 1
    /\ getScores([scorer EXCEPT !.class = "BeginnerLearningModeScoring"]).stars = 2

\* C28: the score of a marathon scorer is 100 points per correct answer; a beginner
\* one gives 3 stars iff points >= 1000, 2 stars iff 500 <= points < 1000, else 1;
\* an advanced one gives 3 stars iff points >= 2000, 2 stars iff
\* 1000 < points < 2000, else 1.
C28_MarathonPointsAndStars ==
    IsMarathon(scorer) =>
        LET points == getScores(scorer).displayScore
            stars == getScores(scorer).stars
        IN  /\ points = 100 * scorer.correctAnswers
            /\ stars \in {1, 2, 3}
            /\ scorer.class = "BeginnerMarathonScoring" =>
                 /\ stars = 3 <=> points >= 1000
                 /\ stars = 2 <=> (500 <= points /\ points < 1000)
            /\ scorer.class = "AdvancedMarathonScoring" =>
                 /\ stars = 3 <=> points >= 2000
                 /\ stars = 2 <=> (1000 < points /\ points < 2000)

\* an advanced marathon scorer has been read at exactly 1000 points and gives 1
\* star where a beginner one gives 3
C28_Witness ==
    /\ ret.op = "getScores"
    /\ scorer.class = "AdvancedMarathonScoring"
    /\ scorer.correctAnswers = 10
    /\ scorer.totalAnswers = 12
    /\ ret.result.displayScore = 1000
    /\ ret.result.stars = 1
    /\ getScores([scorer EXCEPT !.class = "BeginnerMarathonScoring"]).stars = 3

\* the class of the scorer of a mode and a tier
ScorerClassOf ==
    [learning |-> [beginner |-> "BeginnerLearningModeScoring",
                   advanced |-> "AdvancedLearningModeScoring"],
     marathon |-> [beginner |-> "BeginnerMarathonScoring",
                   advanced |-> "AdvancedMarathonScoring"],
     speed |-> [beginner |-> "BeginnerSpeedModeScoring",
                advanced |-> "AdvancedSpeedModeScoring"]]

\* the second counter a scorer of the mode reports
SecondaryCounter ==
    [learning |-> "totalQuestions", marathon |-> "totalAnswers",
     speed |-> "wrongAnswers"]

\* C29: createScorer called with a mode among learning, marathon and speed and a
\* tier among beginner and advanced returns the scorer of that mode and tier, and
\* called with another mode throws the error 'Unknown game mode'; whatever has been
\* marked or reset since, getScores of the scorer has displayScore, proficiencyScore,
\* correctAnswers, the second counter of its mode and stars among 1, 2 and 3.
C29_SixScorersOneShape ==
    /\ (ret.op \in {"createScorer", "create"}
        /\ ret.playerType \in {"beginner", "advanced"}) =>
         IF ret.mode \in {"learning", "marathon", "speed"}
         THEN /\ ~ret.threw
              /\ scorer.class = ScorerClassOf[ret.mode][ret.playerType]
         ELSE /\ ret.threw
              /\ ret.error.message = <<"Unknown game mode: ", ret.mode>>
              /\ scorer = NoScorer
    /\ scorer # NoScorer =>
         \E mode \in {"learning", "marathon", "speed"}, tier \in {"beginner", "advanced"} :
             /\ scorer.class = ScorerClassOf[mode][tier]
             /\ DOMAIN getScores(scorer)
                  = {"displayScore", "proficiencyScore", "correctAnswers", "stars",
                     SecondaryCounter[mode]}
             /\ getScores(scorer).stars \in {1, 2, 3}
             /\ getScores(scorer).correctAnswers = scorer.correctAnswers

\* createScorer has returned the advanced marathon scorer
C29_Witness ==
    /\ ret.op = "createScorer"
    /\ ret.mode = "marathon"
    /\ ret.playerType = "advanced"
    /\ ~ret.threw
    /\ scorer.class = "AdvancedMarathonScoring"
    /\ getScores(scorer).stars = 1

\* the scorer its constructor makes with the configuration of s
Fresh(s) ==
    CASE s.class = "BeginnerLearningModeScoring" ->
           BeginnerLearningModeScoring(s.difficulty, s.totalQuestions)
      [] s.class = "AdvancedLearningModeScoring" ->
           AdvancedLearningModeScoring(s.difficulty, s.totalQuestions)
      [] s.class = "BeginnerMarathonScoring" -> BeginnerMarathonScoring(s.difficulty)
      [] s.class = "AdvancedMarathonScoring" -> AdvancedMarathonScoring(s.difficulty)
      [] s.class = "BeginnerSpeedModeScoring" ->
           BeginnerSpeedModeScoring(s.difficulty, s.intervalSpeed)

\* C30: after reset, whatever was marked before it, getScores is that of a scorer
\* newly constructed with the same difficulty, totalQuestions and intervalSpeed;
\* the configuration is as it was, and a second reset changes nothing.
C30_ResetGivesFreshScorer ==
    (ret.op = "reset" /\ scorer.class # "AdvancedSpeedModeScoring") =>
        /\ getScores(scorer) = getScores(Fresh(ret.before))
        /\ scorer = Fresh(ret.before)
        /\ scorer.class = ret.before.class
        /\ scorer.difficulty = ret.before.difficulty
        /\ IsLearning(scorer) => scorer.totalQuestions = ret.before.totalQuestions
        /\ IsSpeed(scorer) => scorer.intervalSpeed = ret.before.intervalSpeed
        /\ reset(scorer) = scorer

\* a speed scorer has been reset after correct and incorrect answers
C30_Witness ==
    /\ ret.op = "reset"
    /\ scorer.class = "BeginnerSpeedModeScoring"
    /\ ret.before.correctAnswers >= 2
    /\ ret.before.wrongAnswers >= 1
    /\ ret.before.intervalSpeed = 3000
    /\ getScores(scorer).displayScore = 0
    /\ getScores(ret.before).displayScore > 0

\* C39: a marathon scorer never has more correct answers than answers, whatever was
\* marked or reset, so its capped accuracy is at most 100% and its proficiency
\* score at most 100 * difficulty weight * 1.2.
C39_MarathonCorrectWithinTotal ==
    IsMarathon(scorer) =>
        /\ scorer.correctAnswers <= scorer.totalAnswers
        /\ Min(scorer.correctAnswers, 30) <= Min(scorer.totalAnswers, 30)
        /\ getProficiencyScore(scorer)
             <= (100 * SCALE * levelWeights(scorer.difficulty) * 12) \div 100

\* a marathon scorer has been given 31 correct answers in 31 and is at the bound
C39_Witness ==
    /\ ret.op = "markCorrect"
    /\ scorer.class = "BeginnerMarathonScoring"
    /\ scorer.difficulty = "advanced"
    /\ scorer.correctAnswers = 31
    /\ scorer.totalAnswers = 31
    /\ getProficiencyScore(scorer) = 240 * SCALE

\* the history persisted before the recordSession that ret describes
PriorHistory == IF IsRecord(ret.before) THEN ret.before.value.sessionHistory ELSE <<>>

\* C35: the accuracies recordSession gives to calculateConsistency are those of the
\* last 9 persisted history entries, all of them when there are fewer, in order and
\* followed by the accuracy of the session: never more than 10 values; on a track's
\* first session there is one value and the consistency is 0.5; the consistency is
\* always between 0 and 1.
C35_ConsistencyInput ==
    Recorded =>
        LET n == Len(PriorHistory)
            k == IF n < 9 THEN n ELSE 9
            input == ret.locals.recentAccuracies
            consistency == ret.locals.metrics.consistency
        IN  /\ Len(input) = k + 1
            /\ Len(input) <= 10
            /\ \A i \in 1..k : input[i] = PriorHistory[n - k + i].accuracy
            /\ input[k + 1] = ret.locals.sessionRecord.accuracy
            /\ consistency = calculateConsistency(input)
            /\ n = 0 => (Len(input) = 1 /\ consistency = 5000)
            /\ 0 <= consistency /\ consistency <= SCALE

\* a session was recorded on a track with more than 9 persisted sessions, the
\* tenth from the end having another accuracy than the ninth
C35_Witness ==
    /\ Recorded
    /\ Len(PriorHistory) >= 12
    /\ PriorHistory[Len(PriorHistory) - 9].accuracy
         # PriorHistory[Len(PriorHistory) - 8].accuracy
    /\ Len(ret.locals.recentAccuracies) = 10
    /\ ret.locals.recentAccuracies[1] = PriorHistory[Len(PriorHistory) - 8].accuracy

\* C36: every persisted record with a history carries the competency of its last
\* history entry as its competency and that entry's timestamp as its lastPractice,
\* and the competency recordSession returns is the one it persisted.
C36_RecordSelfConsistent ==
    /\ \A k \in DOMAIN localStorage :
           (IsRecord(localStorage[k]) /\ localStorage[k].value.sessionHistory # <<>>) =>
               LET record == localStorage[k].value
                   last == LastRecord(record.sessionHistory)
               IN  /\ record.proficiencyScore = last.proficiency
                   /\ record.lastPractice = last.timestamp
    /\ Recorded =>
           /\ IsRecord(localStorage[RetKey])
           /\ ret.proficiencyScore = localStorage[RetKey].value.proficiencyScore

\* a second session was recorded on a track at a later time than the first, with
\* another competency
C36_Witness ==
    /\ Recorded
    /\ Len(localStorage[RetKey].value.sessionHistory) = 2
    /\ localStorage[RetKey].value.lastPractice > 0
    /\ localStorage[RetKey].value.sessionHistory[1].timestamp = 0
    /\ localStorage[RetKey].value.sessionHistory[1].proficiency # ret.proficiencyScore
    /\ ret.proficiencyScore % 100 # 0

\* C33: in speed mode every expiry of a note's time budget is counted as an
\* incorrect answer: when the speed timer fires, whether the render or the resume
\* started it, the scorer is marked incorrect once
C33_TimeoutMarksIncorrect ==
    [][ret'.op = "speedTimer" => scorer' = markIncorrect(scorer)]_vars

\* the answers the marathon scorer has counted as wrong
MarathonWrongAnswers == scorer.totalAnswers - scorer.correctAnswers

C37_OnePointPerNote ==
    /\ [](Playing =>
            /\ scorer.correctAnswers = game.correctCount
            /\ game.correctCount <= game.noteCount)
    /\ [][Playing =>
            /\ (scorer' = markCorrect(scorer))
                 <=> (game'.correctCount = game.correctCount + 1)
            /\ game'.correctCount \in {game.correctCount, game.correctCount + 1}
            /\ game.noteWasMarkedWrong =>
                 /\ game'.correctCount = game.correctCount
                 /\ scorer'.correctAnswers = scorer.correctAnswers]_vars

\* C32: scoring is final when the session ends: once ended is set, no later event
\* (a pending wrong-tolerance timer, a pending speed timer, a scheduled render,
\* input) marks the scorer or changes correctCount or noteCount
C32_ScoringFinalAtEnd ==
    [][Playing /\ game.ended =>
           /\ scorer' = scorer
           /\ game'.correctCount = game.correctCount
           /\ game'.noteCount = game.noteCount]_vars

\* C38: while the game is paused nothing is judged: between a game:pause and the
\* next game:resume no answer is marked, no speed timeout fires, no life is lost,
\* and noteCount and the scorer's counters stay as they are, whatever timers were
\* pending when the pause came
C38_NothingJudgedWhilePaused ==
    [][Playing /\ game.paused /\ game'.paused =>
           /\ scorer' = scorer
           /\ ret'.op # "speedTimer"
           /\ game'.lives = game.lives
           /\ game'.noteCount = game.noteCount
           /\ game'.correctCount = game.correctCount
           /\ game'.noteWasMarkedWrong = game.noteWasMarkedWrong]_vars

\* C31: the game loop calls recordSession exactly once per completed session: a
\* session of a signed-in player that has reached its end (a learning game with
\* its 20th note answered, right or wrong; a marathon out of lives; a speed game
\* ended by the timeout) has been recorded once, and no session is recorded twice
C31_RecordedExactlyOnce ==
    /\ [](Playing /\ game.user # NoUser =>
            game.recordSessionCalls = IF game.ended THEN 1 ELSE 0)
    /\ [][Playing => game'.recordSessionCalls = game.recordSessionCalls
                       + (IF ret'.op = "recordSession" THEN 1 ELSE 0)]_vars

====
